---- MODULE Spec2Model ----
(***************************************************************************)
(* A model of rust-web-surfer (src/src/main.rs): the Browser object, the   *)
(* command loop of main, the bookmark and history menus, the viewport and  *)
(* the history ledger.                                                     *)
(*                                                                         *)
(* Strings are sequences of one-character strings, so that prefix tests    *)
(* and concatenation are computed as the code computes them.  An           *)
(* Option<String> is a sequence of length 0 (None) or 1 (Some).            *)
(***************************************************************************)
EXTENDS Integers, Sequences, FiniteSets, TLC

VARIABLES
    current_url,      \* Browser.current_url    : Option<String>
    history,          \* Browser.history        : VecDeque<String>, front first
    bookmarks,        \* Browser.bookmarks      : Vec<Bookmark>
    page_content,     \* Browser.page_content   : the lines of the String
    scroll_position,  \* Browser.scroll_position: usize
    term,             \* the terminal's size [cols, rows], as crossterm reports it
    build,            \* "debug" (overflow checks on) or "release" (wrapping)
    file,             \* the content of bookmarks.json
    screen,           \* what the last display_page drew
    raw_mode,         \* whether the terminal is in raw mode
    mode,             \* where the process is: a prompt, or ended
    last              \* the command executed last and its outcome

vars == <<current_url, history, bookmarks, page_content, scroll_position,
          term, build, file, screen, raw_mode, mode, last>>

-----------------------------------------------------------------------------
(* Program constants *)

MAX_HISTORY == 50

\* The modulus of usize arithmetic.  usize is 64 bits wide; TLC's integers are
\* 32 bits wide, so the modulus of the model is 2^30: like 2^64 it is larger
\* than every document length and terminal size, and a value that wrapped
\* around compares with them as it does in the program.
USIZE == 2^30

\* header = " Rust Web Browser "
HEADER_LEN == 18

\* crossterm::terminal::size()?.1 as usize - 7
CHROME_ROWS == 7

\* the step of scroll-up and scroll-down
SCROLL_STEP == 5

-----------------------------------------------------------------------------
(* Bounds of the model *)

\* the number of record(url) calls followed in SpecLedger
MaxRecords == 3

\* the number of lines of the long HTML document
LongDoc == 12

\* the number of bookmarks the list is followed to
MaxBookmarks == 2

\* the most lines of a document that is searched
MaxSearchLines == 2

-----------------------------------------------------------------------------
(* Strings *)

None == << >>
Some(x) == << x >>
IsSome(o) == Len(o) = 1
Unwrap(o) == o[1]

\* str::starts_with
StartsWith(s, p) ==
    /\ Len(p) <= Len(s)
    /\ SubSeq(s, 1, Len(p)) = p

Min(a, b) == IF a <= b THEN a ELSE b

HTTP == << "h", "t", "t", "p" >>
HTTPS_PREFIX == << "h", "t", "t", "p", "s", ":", "/", "/" >>

Digit == << "0", "1", "2", "3", "4", "5", "6", "7", "8", "9" >>

\* two decimal digits of n, as a string
TwoDigits(n) == << Digit[((n \div 10) % 10) + 1], Digit[(n % 10) + 1] >>

\* the number of decimal digits of n, as format!("{}", n) prints it
DecLen(n) == IF n < 10 THEN 1 ELSE IF n < 100 THEN 2 ELSE 3

-----------------------------------------------------------------------------
(* History ledger *)

\* a position() that never finds the URL
PositionNever(h, url) == 0

\* VecDeque::iter().position(|x| x == &url): the first index holding url, 0 if none
Position(h, url) ==
    IF \E i \in 1..Len(h) : h[i] = url
    THEN CHOOSE i \in 1..Len(h) : h[i] = url /\ \A j \in 1..(i - 1) : h[j] # url
    ELSE 0

\* VecDeque::remove(pos)
RemoveAt(h, pos) == SubSeq(h, 1, pos - 1) \o SubSeq(h, pos + 1, Len(h))

\* pop_front in the place of pop_back
PopFront(h) == SubSeq(h, 2, Len(h))

\* VecDeque::pop_back
PopBack(h) == SubSeq(h, 1, Len(h) - 1)

\* add_to_history with `>` in the place of `>=`
add_to_history_gt(h, url) ==
    LET pos == Position(h, url)
        h1 == IF pos # 0 THEN RemoveAt(h, pos) ELSE h
        h2 == IF Len(h1) > MAX_HISTORY THEN PopBack(h1) ELSE h1
    IN  << url >> \o h2

\* Browser::add_to_history
add_to_history(h, url) ==
    LET pos == Position(h, url)
        h1 == IF pos # 0 THEN RemoveAt(h, pos) ELSE h
        h2 == IF Len(h1) >= MAX_HISTORY THEN PopBack(h1) ELSE h1
    IN  << url >> \o h2

-----------------------------------------------------------------------------
(* Bookmark file *)

Bookmark(title, url) == [title |-> title, url |-> url]

\* The content of bookmarks.json is a sequence of tokens: the punctuation of
\* the JSON array and, for each bookmark, its two strings in quotes.
Quote == << "\"" >>

Quoted(str) == Quote \o str \o Quote

Unquoted(tok) == SubSeq(tok, 2, Len(tok) - 1)

IsQuoted(tok) == Len(tok) >= 2 /\ tok[1] = "\"" /\ tok[Len(tok)] = "\""

\* serde_json::to_writer_pretty(file, &self.bookmarks)
RECURSIVE EncodeItems(_)
EncodeItems(bm) ==
    IF bm = << >> THEN << >>
    ELSE << << "{" >>, Quoted(bm[1].title), Quoted(bm[1].url), << "}" >> >>
         \o EncodeItems(SubSeq(bm, 2, Len(bm)))

Encode(bm) == << << "[" >> >> \o EncodeItems(bm) \o << << "]" >> >>

\* whether serde_json::from_reader decodes the text as a Vec<Bookmark>
Decodes(text) ==
    /\ Len(text) >= 2
    /\ text[1] = << "[" >>
    /\ text[Len(text)] = << "]" >>
    /\ (Len(text) - 2) % 4 = 0
    /\ \A k \in 0..(((Len(text) - 2) \div 4) - 1) :
           /\ text[4 * k + 2] = << "{" >>
           /\ IsQuoted(text[4 * k + 3])
           /\ IsQuoted(text[4 * k + 4])
           /\ text[4 * k + 5] = << "}" >>

\* serde_json::from_reader(file) of a text that decodes
Decode(text) ==
    [k \in 1..((Len(text) - 2) \div 4) |->
        Bookmark(Unquoted(text[4 * k - 1]), Unquoted(text[4 * k]))]

File(state, text) == [state |-> state, text |-> text]

\* Browser::load_bookmarks: a missing file and a file that does not decode
\* both give the empty list
load_bookmarks(f) ==
    IF f.state = "present" /\ Decodes(f.text) THEN Decode(f.text) ELSE << >>

\* save_bookmarks that opens the file without truncate(true) and appends
save_bookmarks_append(bm, f, how) ==
    CASE how = "ok"         -> [res |-> "ok",  file |-> File("present", f.text \o Encode(bm))]
      [] how = "open_fail"  -> [res |-> "err", file |-> f]
      [] how = "write_fail" -> [res |-> "err", file |-> File("present", f.text)]

\* Browser::save_bookmarks.  how = "ok": the file holds the list;
\* "open_fail": OpenOptions::open failed, the file is as it was;
\* "write_fail": the file was truncated by open and the write stopped after
\* the first token.
save_bookmarks(bm, f, how) ==
    CASE how = "ok"         -> [res |-> "ok",  file |-> File("present", Encode(bm))]
      [] how = "open_fail"  -> [res |-> "err", file |-> f]
      [] how = "write_fail" -> [res |-> "err", file |-> File("present", << << "[" >> >>)]

-----------------------------------------------------------------------------
(* Viewport *)

\* crossterm::terminal::size()?.1 as usize - 7, in a release build (wrapping)
terminal_height(t) == (t.rows - CHROME_ROWS) % USIZE

\* the subtraction overflows: a panic in a debug build
HeightUnderflows(t) == t.rows < CHROME_ROWS

max_scroll(lines, t) ==
    IF Len(lines) > terminal_height(t) THEN Len(lines) - terminal_height(t) ELSE 0

\* status = format!(" Lines: {} | Position: {} ", lines.len(), effective_scroll + 1)
StatusLen(n, pos) == 22 + DecLen(n) + DecLen(pos)

\* a screen on which nothing was drawn
Blank == [url_line |-> None, rows |-> << >>, status |-> None]

\* display_page that numbers the lines from the top of the screen
display_page_relative(b, t, bld, io, old) ==
    LET lines == b.page_content
        th == terminal_height(t)
        ms == max_scroll(lines, t)
        effective_scroll == Min(b.scroll_position, ms)
        visible_lines == SubSeq(lines, effective_scroll + 1, Len(lines))
        shown == [i \in 1..Min(th, Len(visible_lines)) |->
                     [num |-> (i - 1) + 1, text |-> visible_lines[i]]]
        withUrl == [url_line |-> Some(b.current_url), rows |-> << >>, status |-> None]
        withRows == [withUrl EXCEPT !.rows = shown]
        full == [withRows EXCEPT !.status =
                     Some([lines |-> Len(lines), position |-> effective_scroll + 1])]
    IN  CASE io = "err" -> [res |-> "io_error", screen |-> old]
          \* terminal_width - header.len() underflows: a panic in a debug build,
          \* a wrapped count given to " ".repeat in a release build, which panics
          [] io # "err" /\ t.cols < HEADER_LEN -> [res |-> "panic", screen |-> Blank]
          [] io # "err" /\ t.cols >= HEADER_LEN /\ HeightUnderflows(t) /\ bld = "debug" ->
                 [res |-> "panic", screen |-> withUrl]
          [] io # "err" /\ t.cols >= HEADER_LEN /\ ~(HeightUnderflows(t) /\ bld = "debug")
                /\ t.cols < StatusLen(Len(lines), effective_scroll + 1) ->
                 [res |-> "panic", screen |-> withRows]
          [] OTHER -> [res |-> "ok", screen |-> full]

\* Browser::display_page.  io = "err": the first execute! fails and nothing is
\* drawn.  The result is how the call ended and what it left on the screen.
display_page(b, t, bld, io, old) ==
    LET lines == b.page_content
        th == terminal_height(t)
        ms == max_scroll(lines, t)
        effective_scroll == Min(b.scroll_position, ms)
        visible_lines == SubSeq(lines, effective_scroll + 1, Len(lines))
        shown == [i \in 1..Min(th, Len(visible_lines)) |->
                     [num |-> (i - 1) + effective_scroll + 1, text |-> visible_lines[i]]]
        withUrl == [url_line |-> Some(b.current_url), rows |-> << >>, status |-> None]
        withRows == [withUrl EXCEPT !.rows = shown]
        full == [withRows EXCEPT !.status =
                     Some([lines |-> Len(lines), position |-> effective_scroll + 1])]
    IN  CASE io = "err" -> [res |-> "io_error", screen |-> old]
          \* terminal_width - header.len() underflows: a panic in a debug build,
          \* a wrapped count given to " ".repeat in a release build, which panics
          [] io # "err" /\ t.cols < HEADER_LEN -> [res |-> "panic", screen |-> Blank]
          [] io # "err" /\ t.cols >= HEADER_LEN /\ HeightUnderflows(t) /\ bld = "debug" ->
                 [res |-> "panic", screen |-> withUrl]
          [] io # "err" /\ t.cols >= HEADER_LEN /\ ~(HeightUnderflows(t) /\ bld = "debug")
                /\ t.cols < StatusLen(Len(lines), effective_scroll + 1) ->
                 [res |-> "panic", screen |-> withRows]
          [] OTHER -> [res |-> "ok", screen |-> full]

-----------------------------------------------------------------------------
(* Rendering *)

\* the text of line i of an HTML document, as html2text gives it
LineText(i) == << "l" >> \o TwoDigits(i)

\* Browser::render_html: the body of n text lines renders to n lines
render_html(n) == [i \in 1..n |-> LineText(i)]

\* serde_json::to_string_pretty of the value {"a":1}
JsonPretty == << << "{" >>, << " ", " ", "\"", "a", "\"", ":", " ", "1" >>, << "}" >> >>

TextPlain == << "t", "e", "x", "t", "/", "p", "l", "a", "i", "n" >>

\* format!("Content-Type '{}' not supported for display", content_type)
Unsupported(ct) ==
    << << "C", "o", "n", "t", "e", "n", "t", "-", "T", "y", "p", "e", " ", "'" >>
       \o ct \o
       << "'", " ", "n", "o", "t", " ", "s", "u", "p", "p", "o", "r", "t", "e", "d",
          " ", "f", "o", "r", " ", "d", "i", "s", "p", "l", "a", "y" >> >>

\* what a fetch can give: an error of send(), or a response with a content type
\* and a body that can or cannot be read and decoded as that type
Response(fetch, ct, body, size) == [fetch |-> fetch, ct |-> ct, body |-> body, size |-> size]

FetchError == Response("err", "none", "none", 0)

\* no fetch was made
NoResponse == Response("none", "none", "none", 0)

\* the document of a response whose body decodes
Rendered(resp) ==
    CASE resp.ct = "html" -> render_html(resp.size)
      [] resp.ct = "json" -> JsonPretty
      [] OTHER            -> Unsupported(TextPlain)

-----------------------------------------------------------------------------
(* Search *)

UpperCase == << "A", "B", "C", "D", "E", "F", "G", "H", "I", "J", "K", "L", "M",
                "N", "O", "P", "Q", "R", "S", "T", "U", "V", "W", "X", "Y", "Z" >>

LowerCase == << "a", "b", "c", "d", "e", "f", "g", "h", "i", "j", "k", "l", "m",
                "n", "o", "p", "q", "r", "s", "t", "u", "v", "w", "x", "y", "z" >>

\* char::to_lowercase of an ASCII character
LowerChar(c) ==
    IF \E i \in 1..26 : UpperCase[i] = c
    THEN LowerCase[CHOOSE i \in 1..26 : UpperCase[i] = c]
    ELSE c

\* str::to_lowercase of an ASCII string
to_lowercase(str) == [i \in 1..Len(str) |-> LowerChar(str[i])]

\* pat occurs in str at the byte offset k
OccursAt(str, pat, k) ==
    k + Len(pat) <= Len(str) /\ SubSeq(str, k + 1, k + Len(pat)) = pat

\* str::contains
contains(str, pat) == \E k \in 0..Len(str) : OccursAt(str, pat, k)

\* a scan that goes on one byte after the start of a match
AdvanceByOne(start, pat) == start + 1

\* where the scan of match_indices goes on after a match at start: after the
\* match, and one byte further when the pattern is empty
Advance(start, pat) == IF Len(pat) = 0 THEN start + 1 ELSE start + Len(pat)

\* str::match_indices from the byte offset pos on: the start offsets
RECURSIVE MatchFrom(_, _, _)
MatchFrom(str, pat, pos) ==
    IF \E k \in pos..Len(str) : OccursAt(str, pat, k)
    THEN LET start == CHOOSE k \in pos..Len(str) :
                          /\ OccursAt(str, pat, k)
                          /\ \A j \in pos..(k - 1) : ~OccursAt(str, pat, j)
         IN  << start >> \o MatchFrom(str, pat, Advance(start, pat))
    ELSE << >>

match_indices(str, pat) == MatchFrom(str, pat, 0)

\* one line of the results: its number, the line as printed, and for each
\* match the highlighted slice &line[start..start + query.len()]
ResultRow(i, line, query) ==
    LET starts == match_indices(to_lowercase(line), to_lowercase(query))
    IN  [num |-> i, text |-> line,
         spans |-> [k \in 1..Len(starts) |->
                       [start |-> starts[k], end |-> starts[k] + Len(query),
                        hl |-> SubSeq(line, starts[k] + 1, starts[k] + Len(query))]]]

\* Browser::search_in_page.  io = "err": the first execute! fails and nothing
\* is printed.  The result is how the call ended, the flag found, and what
\* it left on the screen.
search_in_page(b, query, io, old) ==
    LET lines == b.page_content
        Matches(row) == contains(to_lowercase(row.text), to_lowercase(query))
        results == SelectSeq([i \in 1..Len(lines) |-> ResultRow(i, lines[i], query)],
                             Matches)
    IN  IF io = "err"
        THEN [res |-> "io_error", found |-> FALSE, screen |-> old]
        ELSE [res |-> "ok", found |-> results # << >>,
              screen |-> [url_line |-> None, rows |-> results, status |-> None]]

\* str::trim of a string whose only whitespace is the space
RECURSIVE trim(_)
trim(str) ==
    CASE str = << >> -> << >>
      [] str # << >> /\ str[1] = " " -> trim(SubSeq(str, 2, Len(str)))
      [] str # << >> /\ str[1] # " " /\ str[Len(str)] = " " ->
             trim(SubSeq(str, 1, Len(str) - 1))
      [] OTHER -> str

SEARCH_PREFIX == << "s", "e", "a", "r", "c", "h", " " >>

-----------------------------------------------------------------------------
(* Navigation *)

\* the Browser object as one record
Self == [current_url |-> current_url, history |-> history, bookmarks |-> bookmarks,
         page_content |-> page_content, scroll_position |-> scroll_position]

\* the scheme is prepended to every input
NormalizeAlways(url) == HTTPS_PREFIX \o url

\* main.rs 77-81: the URL that is fetched
Normalize(url) == IF ~StartsWith(url, HTTP) THEN HTTPS_PREFIX \o url ELSE url

\* reqwest's Client::get(&url).send(): a string that is no absolute http or
\* https URL is refused before anything is sent
IsHttpUrl(url) ==
    \/ StartsWith(url, HTTP \o << ":" >>)
    \/ StartsWith(url, HTTP \o << "s", ":" >>)

\* handle_response that empties page_content before it decodes the body
handle_response_clears(b, resp, t, bld, io, old) ==
    IF resp.ct \in {"html", "json"} /\ resp.body = "bad"
    THEN [res |-> "decode_error", b |-> [b EXCEPT !.page_content = << >>], screen |-> old]
    ELSE LET b1 == [b EXCEPT !.page_content = Rendered(resp)]
             d == display_page(b1, t, bld, io, old)
         IN  [res |-> d.res, b |-> b1, screen |-> d.screen]

\* Browser::handle_response: [res, b, screen]
handle_response(b, resp, t, bld, io, old) ==
    IF resp.ct \in {"html", "json"} /\ resp.body = "bad"
    THEN [res |-> "decode_error", b |-> b, screen |-> old]
    ELSE LET b1 == [b EXCEPT !.page_content = Rendered(resp)]
             d == display_page(b1, t, bld, io, old)
         IN  [res |-> d.res, b |-> b1, screen |-> d.screen]

\* navigate that stores the URL before the response is handled
navigate_url_first(b, input, resp, t, bld, io, old) ==
    LET url == Normalize(input)
    IN  IF resp.fetch = "err" \/ ~IsHttpUrl(url)
        THEN [res |-> "fetch_error", b |-> b, screen |-> old]
        ELSE LET b0 == [b EXCEPT !.current_url = Some(url)]
                 h == handle_response(b0, resp, t, bld, io, old)
             IN  IF h.res # "ok"
                 THEN h
                 ELSE [res |-> "ok",
                       b |-> [h.b EXCEPT !.history = add_to_history(h.b.history, url),
                                         !.scroll_position = 0],
                       screen |-> h.screen]

\* Browser::navigate: [res, b, screen]
navigate(b, input, resp, t, bld, io, old) ==
    LET url == Normalize(input)
    IN  IF resp.fetch = "err" \/ ~IsHttpUrl(url)
        THEN [res |-> "fetch_error", b |-> b, screen |-> old]
        ELSE LET h == handle_response(b, resp, t, bld, io, old)
             IN  IF h.res # "ok"
                 THEN h
                 ELSE [res |-> "ok",
                       b |-> [h.b EXCEPT !.history = add_to_history(h.b.history, url),
                                         !.current_url = Some(url),
                                         !.scroll_position = 0],
                       screen |-> h.screen]

-----------------------------------------------------------------------------
(* Inputs of the model *)

A_IO == << "a", ".", "i", "o" >>
B_IO == << "b", ".", "i", "o" >>
HTTPBIN == << "h", "t", "t", "p", "b", "i", "n", ".", "i", "o" >>

\* what the user types after "g "
Inputs == { A_IO, HTTPS_PREFIX \o A_IO, HTTP \o << ":", "/", "/" >> \o B_IO, HTTPBIN }

Responses ==
    { FetchError,
      Response("ok", "html", "ok", 0), Response("ok", "html", "ok", LongDoc),
      Response("ok", "html", "bad", 0),
      Response("ok", "json", "ok", 0), Response("ok", "json", "bad", 0),
      Response("ok", "other", "ok", 0) }

Size(c, r) == [cols |-> c, rows |-> r]

TermSizes == { Size(80, 8), Size(80, 14), Size(80, 5), Size(20, 14) }

Builds == { "debug", "release" }

Titles == { << "t" >> }

SaveOutcomes == { "ok", "open_fail", "write_fail" }

IoOutcomes == { "ok", "err" }

\* the lines a document under search is made of
THE_CAT_SAT == << "T", "h", "e", " ", "C", "a", "t", " ", "s", "a", "t" >>

SearchLines == { THE_CAT_SAT, << "a", "a", "a" >>, << >>, << "c", "A", "t" >>,
                 << "A", "b" >> }

CAT == << "c", "a", "t" >>

\* the queries search_in_page is called with
Queries == { << >>, CAT, << "A", "A" >>, << "a" >>, << "x" >> }

\* what the user types after "search "
SearchRests == { << >>, << " " >>, << " ", "C", "a", "t", " " >>, << "a", "a" >>,
                 << "a", "t", " ", "s" >> }

\* what bookmarks.json can hold when the program starts
InitFiles ==
    { File("missing", << >>), File("present", << << "[" >>, << "{" >> >>),
      File("present", Encode(<< Bookmark(<< "t" >>, A_IO) >>)) }

-----------------------------------------------------------------------------
(* The state machine *)

Last(cmd, outcome, input, resp) ==
    [cmd |-> cmd, outcome |-> outcome, input |-> input, resp |-> resp]

\* Browser::new and the first lines of main
Init ==
    /\ current_url = None
    /\ history = << >>
    /\ file \in InitFiles
    /\ bookmarks = load_bookmarks(file)
    /\ page_content = << >>
    /\ scroll_position = 0
    /\ term \in TermSizes
    /\ build \in Builds
    /\ screen = Blank
    /\ raw_mode = FALSE
    /\ mode = "main"
    /\ last = Last("start", "none", << >>, NoResponse)

\* the fields of self after a method returned it as b
SetSelf(b) ==
    /\ current_url' = b.current_url
    /\ history' = b.history
    /\ bookmarks' = b.bookmarks
    /\ page_content' = b.page_content
    /\ scroll_position' = b.scroll_position

\* where main is after a call whose error it propagates with `?`
AfterTry(res, cont) ==
    CASE res = "panic" -> "panic"
      [] res \in {"ok", "noop"} -> cont
      [] OTHER -> "exit_err"

\* where main is after a call whose error it prints
AfterCatch(res, cont) == IF res = "panic" THEN "panic" ELSE cont

\* the terminal is resized between two commands
Resize(t) ==
    /\ mode \in {"main", "bookmarks", "history"}
    /\ t # term
    /\ term' = t
    /\ last' = Last("resize", "none", << >>, NoResponse)
    /\ UNCHANGED <<current_url, history, bookmarks, page_content, scroll_position,
                   build, file, screen, raw_mode, mode>>

\* "q" | "quit"
Quit ==
    /\ mode = "main"
    /\ mode' = "exit_ok"
    /\ last' = Last("q", "ok", << >>, NoResponse)
    /\ UNCHANGED <<current_url, history, bookmarks, page_content, scroll_position,
                   term, build, file, screen, raw_mode>>

\* "h" | "help" and the unknown command: text is printed
Help ==
    /\ mode = "main"
    /\ last' = Last("h", "ok", << >>, NoResponse)
    /\ UNCHANGED <<current_url, history, bookmarks, page_content, scroll_position,
                   term, build, file, screen, raw_mode, mode>>

\* the scroll position "w" stores
scroll_up(sp) == IF sp >= SCROLL_STEP THEN sp - SCROLL_STEP ELSE 0

\* "w"
ScrollUp(io) ==
    /\ mode = "main"
    /\ \E b \in { [Self EXCEPT !.scroll_position = scroll_up(scroll_position)] } :
       \E d \in { display_page(b, term, build, io, screen) } :
           /\ SetSelf(b)
           /\ screen' = d.screen
           /\ mode' = AfterTry(d.res, "main")
           /\ last' = Last("w", d.res, << >>, NoResponse)
    /\ UNCHANGED <<term, build, file, raw_mode>>

\* scroll-down without the clamp to max_scroll
scroll_down_unclamped(sp, lines, t) == sp + SCROLL_STEP

\* the scroll position "s" stores
scroll_down(sp, lines, t) == Min(sp + SCROLL_STEP, max_scroll(lines, t))

\* "s"
ScrollDown(io) ==
    /\ mode = "main"
    /\ IF HeightUnderflows(term) /\ build = "debug"
       THEN /\ mode' = "panic"
            /\ last' = Last("s", "panic", << >>, NoResponse)
            /\ UNCHANGED <<current_url, history, bookmarks, page_content,
                           scroll_position, screen>>
       ELSE \E b \in { [Self EXCEPT !.scroll_position =
                              scroll_down(scroll_position, page_content, term)] } :
            \E d \in { display_page(b, term, build, io, screen) } :
                /\ SetSelf(b)
                /\ screen' = d.screen
                /\ mode' = AfterTry(d.res, "main")
                /\ last' = Last("s", d.res, << >>, NoResponse)
    /\ UNCHANGED <<term, build, file, raw_mode>>

\* "g URL": the error of navigate is printed
Go(input, resp, io) ==
    /\ mode = "main"
    /\ \E n \in { navigate(Self, input, resp, term, build, io, screen) } :
           /\ SetSelf(n.b)
           /\ screen' = n.screen
           /\ mode' = AfterCatch(n.res, "main")
           /\ last' = Last("g", n.res, input, resp)
    /\ UNCHANGED <<term, build, file, raw_mode>>

\* "r": the error of navigate is propagated
Reload(resp, io) ==
    /\ mode = "main"
    /\ IF IsSome(current_url)
       THEN \E n \in { navigate(Self, Unwrap(current_url), resp, term, build, io, screen) } :
                /\ SetSelf(n.b)
                /\ screen' = n.screen
                /\ mode' = AfterTry(n.res, "main")
                /\ last' = Last("r", n.res, Unwrap(current_url), resp)
       ELSE /\ last' = Last("r", "noop", << >>, NoResponse)
            /\ UNCHANGED <<current_url, history, bookmarks, page_content,
                           scroll_position, screen, mode>>
    /\ UNCHANGED <<term, build, file, raw_mode>>

\* add_bookmark that keeps the list free of equal entries
add_bookmark_unique(b, f, title, how) ==
    IF IsSome(b.current_url)
          /\ \A i \in 1..Len(b.bookmarks) :
                 b.bookmarks[i] # Bookmark(title, Unwrap(b.current_url))
    THEN LET bm == Append(b.bookmarks, Bookmark(title, Unwrap(b.current_url)))
             sv == save_bookmarks(bm, f, how)
         IN  [res |-> IF sv.res = "ok" THEN "ok" ELSE "save_error",
              b |-> [b EXCEPT !.bookmarks = bm], file |-> sv.file]
    ELSE [res |-> "noop", b |-> b, file |-> f]

\* Browser::add_bookmark: [res, b, file]
add_bookmark(b, f, title, how) ==
    IF IsSome(b.current_url)
    THEN LET bm == Append(b.bookmarks, Bookmark(title, Unwrap(b.current_url)))
             sv == save_bookmarks(bm, f, how)
         IN  [res |-> IF sv.res = "ok" THEN "ok" ELSE "save_error",
              b |-> [b EXCEPT !.bookmarks = bm], file |-> sv.file]
    ELSE [res |-> "noop", b |-> b, file |-> f]

\* "a TITLE": the error of add_bookmark is printed
AddBookmark(title, how) ==
    /\ mode = "main"
    /\ Len(bookmarks) < MaxBookmarks
    /\ \E a \in { add_bookmark(Self, file, title, how) } :
           /\ SetSelf(a.b)
           /\ file' = a.file
           /\ last' = Last("a", a.res, title, NoResponse)
    /\ UNCHANGED <<term, build, screen, raw_mode, mode>>

RawOutcomes == { "ok", "clear_err", "enable_err", "read_err", "disable_err" }

\* Browser::toggle_raw_mode: [res, raw, screen]
toggle_raw_mode(b, t, bld, how, io, old) ==
    CASE how = "clear_err"   -> [res |-> "io_error", raw |-> FALSE, screen |-> old]
      [] how = "enable_err"  -> [res |-> "io_error", raw |-> FALSE, screen |-> Blank]
      [] how = "read_err"    -> [res |-> "io_error", raw |-> TRUE, screen |-> Blank]
      [] how = "disable_err" -> [res |-> "io_error", raw |-> TRUE, screen |-> Blank]
      [] OTHER -> LET d == display_page(b, t, bld, io, Blank)
                  IN  [res |-> d.res, raw |-> FALSE, screen |-> d.screen]

\* "raw"
Raw(how, io) ==
    /\ mode = "main"
    /\ \E r \in { toggle_raw_mode(Self, term, build, how, io, screen) } :
           /\ raw_mode' = r.raw
           /\ screen' = r.screen
           /\ mode' = AfterTry(r.res, "main")
           /\ last' = Last("raw", r.res, << how >>, NoResponse)
    /\ UNCHANGED <<current_url, history, bookmarks, page_content, scroll_position,
                   term, build, file>>

\* how a search that returned is recorded
SearchOutcome(r) ==
    CASE r.res # "ok" -> r.res
      [] r.res = "ok" /\ r.found -> "found"
      [] OTHER -> "no_matches"

\* a call self.search_in_page(query)
SearchInPage(query, io) ==
    /\ mode = "main"
    /\ \E r \in { search_in_page(Self, query, io, screen) } :
           /\ screen' = r.screen
           /\ mode' = AfterTry(r.res, "main")
           /\ last' = Last("search_in_page", SearchOutcome(r), query, NoResponse)
    /\ UNCHANGED <<current_url, history, bookmarks, page_content, scroll_position,
                   term, build, file, raw_mode>>

\* the line "search REST" is typed: main.rs 442 trims the line, and a line
\* that no longer begins with "search " is an unknown command
Search(rest, io) ==
    /\ mode = "main"
    /\ \E input \in { trim(SEARCH_PREFIX \o rest) } :
       IF StartsWith(input, SEARCH_PREFIX)
       THEN \E query \in { trim(SubSeq(input, 8, Len(input))) } :
            \E r \in { search_in_page(Self, query, io, screen) } :
                /\ screen' = r.screen
                /\ mode' = AfterTry(r.res, "main")
                /\ last' = Last("search", SearchOutcome(r), query, NoResponse)
       ELSE /\ last' = Last("search", "unknown", input, NoResponse)
            /\ UNCHANGED <<screen, mode>>
    /\ UNCHANGED <<current_url, history, bookmarks, page_content, scroll_position,
                   term, build, file, raw_mode>>

\* "b" and "history": the menu is drawn and its prompt read
OpenMenu(menu, io) ==
    /\ mode = "main"
    /\ mode' = IF io = "err" THEN "exit_err" ELSE menu
    /\ last' = Last(menu, IF io = "err" THEN "io_error" ELSE "ok", << >>, NoResponse)
    /\ UNCHANGED <<current_url, history, bookmarks, page_content, scroll_position,
                   term, build, file, screen, raw_mode>>

\* "q" in a menu: break, and the menu returns Ok
MenuQuit ==
    /\ mode \in {"bookmarks", "history"}
    /\ mode' = "main"
    /\ last' = Last("menu_q", "ok", << >>, NoResponse)
    /\ UNCHANGED <<current_url, history, bookmarks, page_content, scroll_position,
                   term, build, file, screen, raw_mode>>

\* the next turn of a menu's loop draws the menu again
MenuAgain(io, menu) == IF io = "err" THEN "exit_err" ELSE menu

\* a delete that takes the typed number as the 0-based index
delete_bookmark_zero_based(bm, f, index, how) ==
    IF index >= 0 /\ index < Len(bm)
    THEN LET bm1 == RemoveAt(bm, index + 1)
             sv == save_bookmarks(bm1, f, how)
         IN  [res |-> IF sv.res = "ok" THEN "ok" ELSE "save_error",
              bm |-> bm1, file |-> sv.file]
    ELSE [res |-> "noop", bm |-> bm, file |-> f]

\* main.rs 251-261: [res, bm, file]
delete_bookmark(bm, f, index, how) ==
    IF index > 0 /\ index <= Len(bm)
    THEN LET bm1 == RemoveAt(bm, index)
             sv == save_bookmarks(bm1, f, how)
         IN  [res |-> IF sv.res = "ok" THEN "ok" ELSE "save_error",
              bm |-> bm1, file |-> sv.file]
    ELSE [res |-> "noop", bm |-> bm, file |-> f]

\* how "d N" ended: with the error of the save, with the error of the menu's
\* next drawing, or as the delete did
DeleteOutcome(res, io) ==
    IF res # "save_error" /\ io = "err" THEN "redraw_error" ELSE res

\* "d N" in the bookmark menu, and the next turn of the menu's loop
BmDelete(index, how, io) ==
    /\ mode = "bookmarks"
    /\ \E d \in { delete_bookmark(bookmarks, file, index, how) } :
           /\ bookmarks' = d.bm
           /\ file' = d.file
           /\ mode' = IF d.res = "save_error" THEN "exit_err"
                      ELSE MenuAgain(io, "bookmarks")
           /\ last' = Last("bm_d", DeleteOutcome(d.res, io), index, NoResponse)
    /\ UNCHANGED <<current_url, history, page_content, scroll_position,
                   term, build, screen, raw_mode>>

\* "N" in a menu over the list of URLs urls: main.rs 262-268 and 308-314
MenuGoto(menu, cmd, urls, index, resp, io) ==
    /\ mode = menu
    /\ IF index > 0 /\ index <= Len(urls)
       THEN \E n \in { navigate(Self, urls[index], resp, term, build, io, screen) } :
                /\ SetSelf(n.b)
                /\ screen' = n.screen
                /\ mode' = AfterTry(n.res, "main")
                /\ last' = Last(cmd, n.res, urls[index], resp)
       ELSE /\ mode' = MenuAgain(io, menu)
            /\ last' = Last(cmd, "noop", << >>, NoResponse)
            /\ UNCHANGED <<current_url, history, bookmarks, page_content,
                           scroll_position, screen>>
    /\ UNCHANGED <<term, build, file, raw_mode>>

BookmarkUrls == [i \in 1..Len(bookmarks) |-> bookmarks[i].url]

BmGoto(index, resp, io) == MenuGoto("bookmarks", "bm_go", BookmarkUrls, index, resp, io)

HiGoto(index, resp, io) == MenuGoto("history", "hi_go", history, index, resp, io)

\* the indices a user types in a menu over n entries: 0, each entry, one past
Indices(n) == 0..(n + 1)

Next ==
    \/ \E t \in TermSizes : Resize(t)
    \/ Quit
    \/ Help
    \/ \E io \in IoOutcomes : ScrollUp(io)
    \/ \E io \in IoOutcomes : ScrollDown(io)
    \/ \E input \in Inputs, resp \in Responses, io \in IoOutcomes : Go(input, resp, io)
    \/ \E resp \in Responses, io \in IoOutcomes : Reload(resp, io)
    \/ \E title \in Titles, how \in SaveOutcomes : AddBookmark(title, how)
    \/ \E how \in RawOutcomes, io \in IoOutcomes : Raw(how, io)
    \/ \E rest \in SearchRests, io \in IoOutcomes : Search(rest, io)
    \/ \E menu \in {"bookmarks", "history"}, io \in IoOutcomes : OpenMenu(menu, io)
    \/ MenuQuit
    \/ \E index \in Indices(Len(bookmarks)), how \in SaveOutcomes, io \in IoOutcomes :
           BmDelete(index, how, io)
    \/ \E index \in Indices(Len(bookmarks)), resp \in Responses, io \in IoOutcomes :
           BmGoto(index, resp, io)
    \/ \E index \in Indices(Len(history)), resp \in Responses, io \in IoOutcomes :
           HiGoto(index, resp, io)

\* The whole program.  Its state space is the product of the navigation, the
\* viewport, the bookmark file and the terminal; the specifications below
\* follow one part of it each, with the same actions.
Spec == Init /\ [][Next]_vars

-----------------------------------------------------------------------------
(* Navigation on a terminal of one size: the commands that navigate, the    *)
(* two menus, and scroll-down, which moves the offset away from 0.          *)

NavInit ==
    /\ Init
    /\ term = Size(80, 8)
    /\ build = "release"

NavNext ==
    \/ Quit
    \/ Help
    \/ \E io \in IoOutcomes : ScrollDown(io)
    \/ \E input \in Inputs, resp \in Responses, io \in IoOutcomes : Go(input, resp, io)
    \/ \E resp \in Responses, io \in IoOutcomes : Reload(resp, io)
    \/ \E menu \in {"bookmarks", "history"}, io \in IoOutcomes : OpenMenu(menu, io)
    \/ MenuQuit
    \/ \E index \in Indices(Len(bookmarks)), resp \in Responses, io \in IoOutcomes :
           BmGoto(index, resp, io)
    \/ \E index \in Indices(Len(history)), resp \in Responses, io \in IoOutcomes :
           HiGoto(index, resp, io)

SpecNav == NavInit /\ [][NavNext]_vars

-----------------------------------------------------------------------------
(* The history ledger at its capacity: add_to_history applied to ledgers of  *)
(* up to MAX_HISTORY entries.  A ledger of n entries Page(1) .. Page(n) is   *)
(* what recording Page(n), .., Page(1) on the empty ledger gives.            *)

Page(n) == HTTPS_PREFIX \o << "p" >> \o TwoDigits(n)

Ledger(n) == [i \in 1..n |-> Page(i)]

LedgerLens == { 0, 1, 2, MAX_HISTORY - 1, MAX_HISTORY }

\* the URLs recorded: at the front, second, at the back, and not in the ledger
RecordUrls ==
    { Page(i) : i \in { 1, 2, MAX_HISTORY - 1, MAX_HISTORY, MAX_HISTORY + 1, MAX_HISTORY + 2 } }

LedgerLast(input, pre, start, log) ==
    [cmd |-> "record", input |-> input, pre |-> pre, start |-> start, log |-> log]

LedgerInit ==
    /\ history \in { Ledger(n) : n \in LedgerLens }
    /\ current_url = IF history = << >> THEN None ELSE Some(history[1])
    /\ file = File("missing", << >>)
    /\ bookmarks = << >>
    /\ page_content = << >>
    /\ scroll_position = 0
    /\ term = Size(80, 8)
    /\ build = "release"
    /\ screen = Blank
    /\ raw_mode = FALSE
    /\ mode = "main"
    /\ last = [cmd |-> "start", input |-> << >>, pre |-> history, start |-> history,
               log |-> << >>]

\* one call of add_to_history
Record(url) ==
    /\ Len(last.log) < MaxRecords
    /\ history' = add_to_history(history, url)
    /\ last' = LedgerLast(url, history, last.start, Append(last.log, url))
    /\ UNCHANGED <<current_url, bookmarks, page_content, scroll_position,
                   term, build, file, screen, raw_mode, mode>>

LedgerNext == \E url \in RecordUrls : Record(url)

SpecLedger == LedgerInit /\ [][LedgerNext]_vars

Range(seq) == { seq[i] : i \in 1..Len(seq) }

NoDuplicates(seq) == \A i, j \in 1..Len(seq) : i # j => seq[i] # seq[j]

\* seq without the entries equal to x, the others in their order
Without(seq, x) == SelectSeq(seq, LAMBDA e : e # x)

\* C1: after any sequence of record calls the ledger holds at most MAX_HISTORY
\* entries and no URL twice.
C1_BoundedNoDuplicates ==
    /\ Len(history) <= MAX_HISTORY
    /\ NoDuplicates(history)

\* a record on a full ledger followed by another one
C1_Witness ==
    /\ last.cmd = "record"
    /\ Len(last.log) >= 2
    /\ Len(last.pre) = MAX_HISTORY
    /\ Len(history) = MAX_HISTORY

\* C6: record(url) puts url at the front; when the ledger held url already, the
\* length is unchanged and the other entries keep their order; and
\* record(A); record(B); record(A) from the empty ledger gives [A, B].
C6_MoveToFront ==
    last.cmd = "record" =>
        /\ history[1] = last.input
        /\ last.input \in Range(last.pre) =>
               /\ Len(history) = Len(last.pre)
               /\ SubSeq(history, 2, Len(history)) = Without(last.pre, last.input)
        /\ (last.start = << >> /\ last.log = << Page(1), Page(2), Page(1) >>) =>
               history = << Page(1), Page(2) >>

\* record(A); record(B); record(A) from the empty ledger
C6_Witness ==
    /\ last.cmd = "record"
    /\ last.start = << >>
    /\ last.log = << Page(1), Page(2), Page(1) >>
    /\ history = << Page(1), Page(2) >>

\* the spec's order: remove, insert at the front, drop the back when over capacity
SpecRecord(h, url) ==
    LET h1 == << url >> \o Without(h, url)
    IN  IF Len(h1) > MAX_HISTORY THEN SubSeq(h1, 1, Len(h1) - 1) ELSE h1

\* C7: on a full ledger a new url evicts exactly the back entry, a url already
\* in it evicts nothing, and the code's order gives the ledger of the spec's order.
C7_EvictsBack ==
    last.cmd = "record" =>
        /\ history = SpecRecord(last.pre, last.input)
        /\ (Len(last.pre) = MAX_HISTORY /\ last.input \notin Range(last.pre)) =>
               history = << last.input >> \o SubSeq(last.pre, 1, MAX_HISTORY - 1)
        /\ (Len(last.pre) = MAX_HISTORY /\ last.input \in Range(last.pre)) =>
               Range(history) = Range(last.pre)

\* a new url recorded on a full ledger: the entry before the back one is the back
C7_Witness ==
    /\ last.cmd = "record"
    /\ Len(last.pre) = MAX_HISTORY
    /\ last.input \notin Range(last.pre)
    /\ history[MAX_HISTORY] = last.pre[MAX_HISTORY - 1]

-----------------------------------------------------------------------------
(* Claims on navigation, checked under SpecNav *)

\* the commands that start a navigation: g, r, go-to in the two menus
NavCmds == { "g", "r", "bm_go", "hi_go" }

Navigated == last.cmd \in NavCmds /\ last.outcome # "noop"

\* the fetch failed, or the body does not decode as its declared type
FetchOrDecodeFails(resp) ==
    \/ resp.fetch = "err"
    \/ resp.fetch = "ok" /\ resp.ct \in {"html", "json"} /\ resp.body = "bad"

\* C2: a navigation whose fetch fails or whose body does not decode returns an
\* error and leaves current_url, page_content, history, scroll_position and the
\* bookmarks as they were.
C2_FailedNavigationKeepsState ==
    [][ (last'.cmd \in NavCmds /\ last'.outcome # "noop" /\ FetchOrDecodeFails(last'.resp)) =>
            /\ last'.outcome \in {"fetch_error", "decode_error"}
            /\ UNCHANGED <<current_url, page_content, history, scroll_position, bookmarks>>
      ]_vars

\* a malformed JSON body arrives while a scrolled document is shown
C2_Witness ==
    /\ Navigated
    /\ last.resp = Response("ok", "json", "bad", 0)
    /\ last.outcome = "decode_error"
    /\ IsSome(current_url)
    /\ Len(page_content) = LongDoc
    /\ scroll_position > 0

\* C3: a fetch or decode error of a navigation started by g, r or a menu's
\* go-to does not end the command loop.
C3_LoopContinues ==
    (Navigated /\ last.outcome \in {"fetch_error", "decode_error"}) =>
        mode \in {"main", "bookmarks", "history"}

\* the input begins with the scheme of an http or https URL
BeginsWithScheme(input) ==
    \/ StartsWith(input, << "h", "t", "t", "p", ":" >>)
    \/ StartsWith(input, << "h", "t", "t", "p", "s", ":" >>)

\* the normalized URL of the spec
Normalized(input) == IF BeginsWithScheme(input) THEN input ELSE HTTPS_PREFIX \o input

\* C4: after a successful navigate(input) the document is the one rendered from
\* the response, scroll_position is 0, and current_url and the front of the
\* history are the normalized URL.
C4_SuccessfulNavigation ==
    (Navigated /\ last.outcome = "ok") =>
        /\ page_content = Rendered(last.resp)
        /\ scroll_position = 0
        /\ current_url = Some(Normalized(last.input))
        /\ Len(history) >= 1
        /\ history[1] = Normalized(last.input)

\* "g a.io" succeeded on top of another page
C4_Witness ==
    /\ last.cmd = "g"
    /\ last.outcome = "ok"
    /\ last.input = A_IO
    /\ current_url = Some(HTTPS_PREFIX \o A_IO)
    /\ Len(history) = 2
    /\ Len(page_content) = LongDoc

\* C5: the redraw of a successful navigation shows the new document from
\* offset 0 under the new URL.
C5_RedrawShowsNewState ==
    (Navigated /\ last.outcome = "ok") =>
        /\ screen.url_line = Some(current_url)
        /\ screen.status = Some([lines |-> Len(page_content), position |-> 1])
        /\ \A i \in 1..Len(screen.rows) : screen.rows[i].num = i

\* C18: between commands the current URL is absent exactly when the history
\* is empty, and otherwise it is the front of the history.
C18_CurrentUrlIsHistoryFront ==
    /\ (current_url = None) <=> (history = << >>)
    /\ (history # << >>) => (current_url = Some(history[1]))

\* a page of the history menu was visited again and is the front of two
C18_Witness ==
    /\ last.cmd = "hi_go"
    /\ last.outcome = "ok"
    /\ Len(history) = 2
    /\ last.input = HTTPS_PREFIX \o A_IO
    /\ current_url = Some(HTTPS_PREFIX \o A_IO)

\* C19: page_content changes only in a successful navigation; when navigate
\* returns an error, the I/O error of the redraw included, page_content is
\* as it was before.
C19_FailedNavigationKeepsContent ==
    [][ /\ (page_content' # page_content) => (last'.cmd \in NavCmds)
        /\ (last'.cmd \in NavCmds
                /\ last'.outcome \in {"fetch_error", "decode_error", "io_error"}) =>
               page_content' = page_content
      ]_vars

-----------------------------------------------------------------------------
(* The viewport on a terminal that is resized between commands: one page is *)
(* loaded and reloaded, scrolled and displayed.                             *)

ViewInit ==
    /\ Init
    /\ file = File("missing", << >>)

ViewNext ==
    \/ \E t \in TermSizes : Resize(t)
    \/ \E io \in IoOutcomes : ScrollUp(io)
    \/ \E io \in IoOutcomes : ScrollDown(io)
    \/ \E resp \in Responses, io \in IoOutcomes : Go(A_IO, resp, io)
    \/ \E how \in RawOutcomes, io \in IoOutcomes : Raw(how, io)

SpecView == ViewInit /\ [][ViewNext]_vars

\* the commands that draw the page
DisplayCmds == { "w", "s", "g", "raw" }

\* max(0, total_lines - viewport_height) of the spec
SpecMaxScroll(total_lines, viewport_height) ==
    IF total_lines - viewport_height > 0 THEN total_lines - viewport_height ELSE 0

\* the viewport height of a terminal that has room for one
ViewportHeight(t) == t.rows - CHROME_ROWS

HasViewport(t) == t.rows >= CHROME_ROWS

\* C8: after every command that scrolls, navigates or displays, the stored
\* scroll offset is at most max(0, total_lines - viewport_height) for the
\* document and the terminal height of that moment.
C8_StoredOffsetInRange ==
    (last.cmd \in DisplayCmds /\ last.outcome = "ok" /\ HasViewport(term)) =>
        /\ 0 <= scroll_position
        /\ scroll_position <= SpecMaxScroll(Len(page_content), ViewportHeight(term))

\* what display_page draws in the current state
Drawn == display_page(Self, term, build, "ok", screen).screen

\* C9: for the document, scroll position and terminal of every state,
\* display_page shows at most viewport_height lines, and every line it shows
\* carries the number of its place in the document, counted from 1; that is
\* what is on the screen after a scroll or display command.
C9_VisibleSlice ==
    /\ HasViewport(term) => Len(Drawn.rows) <= ViewportHeight(term)
    /\ \A i \in 1..Len(Drawn.rows) :
           /\ Drawn.rows[i].num \in 1..Len(page_content)
           /\ Drawn.rows[i].text = page_content[Drawn.rows[i].num]
    /\ (last.cmd \in {"w", "s", "raw"} /\ last.outcome = "ok") => screen = Drawn

\* a full viewport drawn below the top of the document
C9_Witness ==
    /\ last.cmd = "s"
    /\ last.outcome = "ok"
    /\ HasViewport(term)
    /\ Len(screen.rows) = ViewportHeight(term)
    /\ Len(screen.rows) > 1
    /\ screen.rows[1].num > 1

\* C10: scroll-up moves the offset up by 5 and stops at 0, scroll-down moves it
\* down by 5 and stops at max_scroll; at 0 scroll-up and at max_scroll
\* scroll-down leave the offset where it is.
C10_ScrollSaturates ==
    [][ /\ last'.cmd = "w" =>
               /\ scroll_position' = (IF scroll_position - SCROLL_STEP > 0
                                      THEN scroll_position - SCROLL_STEP ELSE 0)
               /\ scroll_position = 0 => scroll_position' = 0
        /\ (last'.cmd = "s" /\ HasViewport(term)) =>
               LET ms == SpecMaxScroll(Len(page_content), ViewportHeight(term))
               IN  /\ scroll_position' = Min(scroll_position + SCROLL_STEP, ms)
                   /\ scroll_position = ms => scroll_position' = ms
      ]_vars

\* scroll-down stopped at a max_scroll that is no multiple of the step
C10_Witness ==
    /\ last.cmd = "s"
    /\ last.outcome = "ok"
    /\ HasViewport(term)
    /\ scroll_position = SpecMaxScroll(Len(page_content), ViewportHeight(term))
    /\ scroll_position > SCROLL_STEP
    /\ scroll_position % SCROLL_STEP # 0

\* C14: every return of toggle_raw_mode after raw mode was enabled, the
\* failure to read a key included, has disabled raw mode.
C14_RawModeDisabled ==
    (last.cmd = "raw" /\ last.input # << "disable_err" >>) => (raw_mode = FALSE)

\* C20: for every terminal size the subtractions rows - 7, cols - header
\* length and cols - status length do not underflow: no display and no
\* scroll-down aborts, and none uses a wrapped height.
C20_NoUnderflow ==
    (last.cmd \in DisplayCmds) =>
        /\ last.outcome # "panic"
        /\ mode # "panic"
        /\ (last.outcome = "ok") => (term.rows >= CHROME_ROWS)

-----------------------------------------------------------------------------
(* Search: search_in_page applied to documents of up to MaxSearchLines lines *)
(* drawn from SearchLines, called with each query of Queries and through     *)
(* the command "search REST" of main.                                        *)

SearchDocs == UNION { [1..n -> SearchLines] : n \in 0..MaxSearchLines }

SearchInit ==
    /\ current_url = Some(HTTPS_PREFIX \o A_IO)
    /\ history = << HTTPS_PREFIX \o A_IO >>
    /\ file = File("missing", << >>)
    /\ bookmarks = load_bookmarks(file)
    /\ page_content \in SearchDocs
    /\ scroll_position = 0
    /\ term = Size(80, 14)
    /\ build = "release"
    /\ screen = Blank
    /\ raw_mode = FALSE
    /\ mode = "main"
    /\ last = Last("start", "none", << >>, NoResponse)

SearchNext ==
    \/ \E query \in Queries, io \in IoOutcomes : SearchInPage(query, io)
    \/ \E rest \in SearchRests, io \in IoOutcomes : Search(rest, io)

SpecSearch == SearchInit /\ [][SearchNext]_vars

SearchCmds == { "search", "search_in_page" }

\* search_in_page returned Ok for the query last.input
Searched == last.cmd \in SearchCmds /\ last.outcome \in {"found", "no_matches"}

SpecOccurs(line, q, k) ==
    /\ k + Len(q) <= Len(line)
    /\ \A j \in 1..Len(q) : LowerChar(line[k + j]) = LowerChar(q[j])

SpecMatchingLines(doc, q) ==
    { i \in 1..Len(doc) : \E k \in 0..Len(doc[i]) : SpecOccurs(doc[i], q, k) }

\* spans are the occurrences a left-to-right scan finds when it goes on
\* after the end of each match
SpecSpans(line, q, spans) ==
    /\ Len(spans) >= 1
    /\ \A k \in 1..Len(spans) :
           /\ SpecOccurs(line, q, spans[k].start)
           /\ spans[k].end = spans[k].start + Len(q)
           /\ spans[k].hl = SubSeq(line, spans[k].start + 1, spans[k].end)
    /\ \A j \in 0..(spans[1].start - 1) : ~SpecOccurs(line, q, j)
    /\ \A k \in 1..(Len(spans) - 1) :
           /\ spans[k + 1].start >= spans[k].end
           /\ \A j \in spans[k].end..(spans[k + 1].start - 1) : ~SpecOccurs(line, q, j)
    /\ \A j \in spans[Len(spans)].end..Len(line) : ~SpecOccurs(line, q, j)

\* C12: for a non-empty ASCII query, search_in_page reports exactly the lines
\* whose lower-cased text contains the lower-cased query, in document order,
\* each with the non-overlapping occurrences of a left-to-right scan as spans
\* into the original line; "cat" in "The Cat sat" is the span 4..7 of line 1.
C12_ReportsMatchingLines ==
    /\ (Searched /\ last.input # << >>) =>
           /\ { screen.rows[r].num : r \in 1..Len(screen.rows) }
                  = SpecMatchingLines(page_content, last.input)
           /\ \A r \in 1..(Len(screen.rows) - 1) :
                  screen.rows[r].num < screen.rows[r + 1].num
           /\ \A r \in 1..Len(screen.rows) :
                  /\ screen.rows[r].text = page_content[screen.rows[r].num]
                  /\ SpecSpans(screen.rows[r].text, last.input, screen.rows[r].spans)
           /\ (last.outcome = "found") <=> (screen.rows # << >>)
    /\ (Searched /\ last.input = CAT /\ page_content = << THE_CAT_SAT >>) =>
           screen.rows = << [num |-> 1, text |-> THE_CAT_SAT,
                             spans |-> << [start |-> 4, end |-> 7,
                                           hl |-> << "C", "a", "t" >>] >>] >>

\* "AA" was searched in a document whose second line is "aaa": one span
C12_Witness ==
    /\ Searched
    /\ last.input = << "A", "A" >>
    /\ page_content = << THE_CAT_SAT, << "a", "a", "a" >> >>
    /\ screen.rows = << [num |-> 2, text |-> << "a", "a", "a" >>,
                         spans |-> << [start |-> 0, end |-> 2,
                                       hl |-> << "a", "a" >>] >>] >>

-----------------------------------------------------------------------------
(* The bookmark store: two pages are visited, bookmarks are added in the     *)
(* command loop and deleted in the bookmark menu, and each save succeeds or  *)
(* fails.                                                                    *)

B_URL == HTTP \o << ":", "/", "/" >> \o B_IO

BookmarksInit ==
    /\ Init
    /\ term = Size(80, 14)
    /\ build = "release"

BookmarksNext ==
    \/ \E input \in {A_IO, B_URL}, resp \in {FetchError, Response("ok", "html", "ok", 0)} :
           Go(input, resp, "ok")
    \/ \E title \in Titles, how \in SaveOutcomes : AddBookmark(title, how)
    \/ \E io \in IoOutcomes : OpenMenu("bookmarks", io)
    \/ MenuQuit
    \/ \E index \in Indices(Len(bookmarks)), how \in SaveOutcomes, io \in IoOutcomes :
           BmDelete(index, how, io)

SpecBookmarks == BookmarksInit /\ [][BookmarksNext]_vars

\* the commands that change the list of bookmarks
MutationCmds == { "a", "bm_d" }

\* C13: when the save of an add or of a delete fails, the failure is not
\* fatal: the command loop goes on.
C13_SaveFailureNotFatal ==
    (last.cmd \in MutationCmds /\ last.outcome = "save_error") =>
        mode \in {"main", "bookmarks"}

\* C15: the store is write-through.  After every add and every delete that
\* changed the list and whose save did not fail, the file holds exactly the
\* text of the list and load_bookmarks returns the list; a step that changes
\* the list is one that attempted the save.
C15_WriteThrough ==
    [][ /\ (bookmarks' # bookmarks) =>
               /\ last'.cmd \in MutationCmds
               /\ last'.outcome \in {"ok", "save_error", "redraw_error"}
        /\ (last'.cmd \in MutationCmds /\ bookmarks' # bookmarks
                /\ last'.outcome # "save_error") =>
               /\ file'.state = "present"
               /\ Decodes(file'.text)
               /\ load_bookmarks(file') = bookmarks'
        /\ (last'.cmd \in MutationCmds /\ bookmarks' = bookmarks) => file' = file
      ]_vars

\* the second of two bookmarks was added over a file that held the first
C15_Witness ==
    /\ last.cmd = "a"
    /\ last.outcome = "ok"
    /\ bookmarks = << Bookmark(<< "t" >>, A_IO), Bookmark(<< "t" >>, B_URL) >>
    /\ load_bookmarks(file) = bookmarks

\* the list without its entry number index, counted from 1
SpecRemoved(bm, index) ==
    [i \in 1..(Len(bm) - 1) |-> IF i < index THEN bm[i] ELSE bm[i + 1]]

\* C16: a delete with the index 0 or an index above the length leaves the
\* list and the file as they are, does not fail and does not end the menu; a
\* delete with an index in range removes that entry and keeps the others in
\* their order.
C16_DeleteByIndex ==
    [][ (last'.cmd = "bm_d") =>
            IF last'.input = 0 \/ last'.input > Len(bookmarks)
            THEN /\ bookmarks' = bookmarks
                 /\ file' = file
                 /\ last'.outcome \in {"noop", "redraw_error"}
                 /\ (last'.outcome = "noop") => (mode' = "bookmarks")
            ELSE /\ bookmarks' = SpecRemoved(bookmarks, last'.input)
                 /\ Len(bookmarks') = Len(bookmarks) - 1
      ]_vars

\* the first of two different bookmarks was deleted and the second is left
C16_Witness ==
    /\ last.cmd = "bm_d"
    /\ last.input = 1
    /\ last.outcome = "ok"
    /\ bookmarks = << Bookmark(<< "t" >>, B_URL) >>
    /\ mode = "bookmarks"

\* C17: add_bookmark without a current URL leaves the list as it is, writes
\* nothing and succeeds; with a current URL it appends one entry (title,
\* current URL) at the end, also when an equal entry is in the list.
C17_AddAppends ==
    [][ (last'.cmd = "a") =>
            IF current_url = None
            THEN /\ bookmarks' = bookmarks
                 /\ file' = file
                 /\ last'.outcome = "noop"
                 /\ mode' = "main"
            ELSE /\ bookmarks' = Append(bookmarks,
                                        [title |-> last'.input, url |-> current_url[1]])
                 /\ last'.outcome \in {"ok", "save_error"}
                 /\ mode' = "main"
      ]_vars

\* the same page was bookmarked twice under the same title
C17_Witness ==
    /\ last.cmd = "a"
    /\ Len(bookmarks) = 2
    /\ bookmarks[1] = bookmarks[2]
    /\ bookmarks[2].url = Unwrap(current_url)

====
